---- MODULE Spec2Model ----
(***************************************************************************)
(* Model of models.py of the scooter rental schema: the duration resolver  *)
(* of PricingTier, the date arithmetic and the status of Rental, the       *)
(* cascade of deletions onto Rental, the PricingTier table, the chat log   *)
(* of CustomerCommunications, and the "only one active" save() and         *)
(* get_default_prompt() of DeepSeekPromptTemplate.                         *)
(*                                                                         *)
(* A nullable column holds None (the empty tuple) or Some(v) (a one-tuple).*)
(* A Decimal is an integer number of price units; a datetime is an integer *)
(* number of ticks, TicksPerDay of them to a calendar day.                 *)
(***************************************************************************)
EXTENDS Integers, Sequences, FiniteSets, TLC

VARIABLES tier, resolved, rental, now, ret, tiers, prompts, inst, pc,
          customers, fleet, rentals, chat_history, chat_saved, added, recent

vars == <<tier, resolved, rental, now, ret, tiers, prompts, inst, pc,
          customers, fleet, rentals, chat_history, chat_saved, added, recent>>

pricingVars == <<tier, resolved>>
rentalVars == <<rental, now, ret>>
tableVars == <<tiers>>
promptVars == <<prompts, inst, pc>>
lifeVars == <<customers, fleet, rentals>>
chatVars == <<chat_history, chat_saved, added, recent>>

----------------------------------------------------------------------------
(* Bounds of the model *)

MaxPrice == 2
MaxNegDays == 1
MaxDays == 27
NumDays == 3
TicksPerDay == 2
NumScooters == 1
MaxTiers == 3
MaxPrompts == 3
NumWriters == 2
NumCustomers == 2
MaxRentals == 2
MaxMessages == 2
MaxMsgLen == 1
MaxLimit == 3
MaxStored == 2

None == <<>>
Some(v) == <<v>>

Prices == 0..MaxPrice
OptPrices == {None} \cup {Some(p) : p \in Prices}
Durations == (0 - MaxNegDays)..MaxDays
Datetimes == 0..(NumDays * TicksPerDay - 1)
OptDatetimes == {None} \cup {Some(t) : t \in Datetimes}

NoCall == [op |-> "none"]

----------------------------------------------------------------------------
(* Python semantics used by the methods *)

\* bool(Decimal): None and Decimal('0') are falsy, every other Decimal is truthy.
DecimalTruthy(x) == x # None /\ x[1] # 0

\* `a or b` on Decimal operands: a when a is truthy, else b.
DecimalOr(a, b) == IF DecimalTruthy(a) THEN a ELSE b

\* `a or b` on datetime operands: a datetime is always truthy, None is falsy.
DatetimeOr(a, b) == IF a # None THEN a ELSE b

\* datetime.date(): the calendar date of a datetime, time of day dropped.
date(t) == t \div TicksPerDay

----------------------------------------------------------------------------
(* PricingTier: the price columns and get_price_for_duration *)

MONTH_CHOICES == {"december", "january", "february", "march", "april", "may",
                  "summer", "september", "october", "november"}

\* The price columns of one PricingTier row. base_price is NOT NULL; the
\* duration bands, the long-term prices and the month prices are nullable.
\* The rows drawn here take every combination of base price and band
\* overrides; the seasonal columns are set together or not at all.
PricingTierRows ==
    {[base_price |-> Some(b),
      days_1_3 |-> d1, days_4_7 |-> d4, days_7_14 |-> d7, days_15_25 |-> d15,
      one_year_rent |-> y,
      six_month_high_season |-> s, six_month_low_season |-> s,
      month |-> [m \in MONTH_CHOICES |-> s]] :
        b \in Prices, d1 \in OptPrices, d4 \in OptPrices, d7 \in OptPrices,
        d15 \in OptPrices, y \in {None, Some(MaxPrice)}, s \in {None, Some(MaxPrice)}}

\* Variant: the last band has no upper limit (the final else is missing).
get_price_for_duration_else_band(self, days) ==
    IF days <= 3 THEN DecimalOr(self.days_1_3, self.base_price)
    ELSE IF days <= 7 THEN DecimalOr(self.days_4_7, self.base_price)
    ELSE IF days <= 14 THEN DecimalOr(self.days_7_14, self.base_price)
    ELSE DecimalOr(self.days_15_25, self.base_price)

\* Variant: the band's override is returned as it is, without `or base_price`.
get_price_for_duration_no_fallback(self, days) ==
    IF days <= 3 THEN self.days_1_3
    ELSE IF days <= 7 THEN self.days_4_7
    ELSE IF days <= 14 THEN self.days_7_14
    ELSE IF days <= 25 THEN self.days_15_25
    ELSE self.base_price

\* Variant: above 25 days the yearly price is taken when it is set.
get_price_for_duration_long_term(self, days) ==
    IF days <= 3 THEN DecimalOr(self.days_1_3, self.base_price)
    ELSE IF days <= 7 THEN DecimalOr(self.days_4_7, self.base_price)
    ELSE IF days <= 14 THEN DecimalOr(self.days_7_14, self.base_price)
    ELSE IF days <= 25 THEN DecimalOr(self.days_15_25, self.base_price)
    ELSE DecimalOr(self.one_year_rent, self.base_price)

get_price_for_duration(self, days) ==
    IF days <= 3 THEN DecimalOr(self.days_1_3, self.base_price)
    ELSE IF days <= 7 THEN DecimalOr(self.days_4_7, self.base_price)
    ELSE IF days <= 14 THEN DecimalOr(self.days_7_14, self.base_price)
    ELSE IF days <= 25 THEN DecimalOr(self.days_15_25, self.base_price)
    ELSE self.base_price

\* A caller resolves the rate of the tier for a rental of `days` days.
ResolvePrice(days) ==
    /\ resolved' = [op |-> "get_price_for_duration", days |-> days,
                    price |-> get_price_for_duration(tier, days)]
    /\ UNCHANGED <<tier, rentalVars, tableVars, promptVars, lifeVars, chatVars>>

----------------------------------------------------------------------------
(* Rental: duration_days and is_overdue *)

RENTAL_STATUS_CHOICES == {"active", "completed", "cancelled", "overdue"}

\* The columns of one Rental row the two methods read. start_date and
\* end_date are NOT NULL datetimes, actual_end_date is nullable; no column
\* relates them to each other.
RentalRows ==
    [start_date : Datetimes, end_date : Datetimes,
     actual_end_date : OptDatetimes, status : RENTAL_STATUS_CHOICES]

\* Variant: the planned end is used even when the actual end is set.
duration_days_planned_end(self) ==
    (date(self.end_date) - date(self.start_date)) + 1

\* Variant: the days of the timedelta between the two datetimes, without
\* taking the calendar dates first.
duration_days_of_timedelta(self) ==
    LET end == DatetimeOr(self.actual_end_date, Some(self.end_date))[1]
    IN  ((end - self.start_date) \div TicksPerDay) + 1

duration_days(self) ==
    LET end == DatetimeOr(self.actual_end_date, Some(self.end_date))[1]
    IN  (date(end) - date(self.start_date)) + 1

\* Variant: `<=` in place of `<`.
is_overdue_not_after(self, t) ==
    IF self.status = "active" /\ self.end_date <= t THEN TRUE ELSE FALSE

\* t is the value of timezone.now() at the call.
is_overdue(self, t) ==
    IF self.status = "active" /\ self.end_date < t THEN TRUE ELSE FALSE

\* Variant: the call stores the end it used in actual_end_date.
CallDurationDays_caching ==
    /\ ret' = [op |-> "duration_days", at |-> now, value |-> duration_days(rental)]
    /\ rental' = [rental EXCEPT
                    !.actual_end_date = DatetimeOr(rental.actual_end_date, Some(rental.end_date))]
    /\ UNCHANGED <<now, pricingVars, tableVars, promptVars, lifeVars, chatVars>>

CallDurationDays ==
    /\ ret' = [op |-> "duration_days", at |-> now, value |-> duration_days(rental)]
    /\ UNCHANGED <<rental, now, pricingVars, tableVars, promptVars, lifeVars, chatVars>>

\* Variant: the call writes 'overdue' to the status when it returns True.
CallIsOverdue_persisting ==
    /\ ret' = [op |-> "is_overdue", at |-> now, value |-> is_overdue(rental, now)]
    /\ rental' = IF is_overdue(rental, now)
                 THEN [rental EXCEPT !.status = "overdue"] ELSE rental
    /\ UNCHANGED <<now, pricingVars, tableVars, promptVars, lifeVars, chatVars>>

CallIsOverdue ==
    /\ ret' = [op |-> "is_overdue", at |-> now, value |-> is_overdue(rental, now)]
    /\ UNCHANGED <<rental, now, pricingVars, tableVars, promptVars, lifeVars, chatVars>>

\* Time passes: timezone.now() grows.
Tick ==
    /\ now + 1 \in Datetimes
    /\ now' = now + 1
    /\ UNCHANGED <<rental, ret, pricingVars, tableVars, promptVars, lifeVars, chatVars>>

\* Variant: a status write that leaves a completed or cancelled rental as it is.
status_written_unless_terminal(self, s) ==
    IF self.status \in {"completed", "cancelled"} THEN self
    ELSE [self EXCEPT !.status = s]

\* rental.status = s: status is a plain CharField; the choices name the
\* values, and nothing in the model relates the new value to the old one.
status_written(self, s) == [self EXCEPT !.status = s]

\* rental.status = s; rental.save()
SetStatus(s) ==
    /\ rental.status # s
    /\ rental' = status_written(rental, s)
    /\ ret' = [op |-> "set_status", from |-> rental.status, to |-> s]
    /\ UNCHANGED <<now, pricingVars, tableVars, promptVars, lifeVars, chatVars>>

\* The status of a new row: the value given, else the column default 'active'.
created_status(st) == IF st = None THEN "active" ELSE st[1]

\* Rental.objects.create(start_date=..., end_date=...[, status=st]) with the
\* dates of the row at hand, which the new row replaces; actual_end_date is
\* left null.
NewRental(st) ==
    /\ rental' = [start_date |-> rental.start_date, end_date |-> rental.end_date,
                  actual_end_date |-> None, status |-> created_status(st)]
    /\ ret' = [op |-> "create", status_given |-> st # None]
    /\ UNCHANGED <<now, pricingVars, tableVars, promptVars, lifeVars, chatVars>>

----------------------------------------------------------------------------
(* The PricingTier table *)

Scooters == 1..NumScooters
OptScooters == {None} \cup {Some(sc) : sc \in Scooters}

\* The columns of a stored PricingTier that decide its scope and whether it
\* is in use: the nullable scooter link (None = general tier), is_active
\* (default True), and the mandatory base_price. The table is the sequence of
\* stored rows; a row's primary key is its position (AutoField).
TierTableRows == [scooter : OptScooters, base_price : Prices, is_active : BOOLEAN]

\* Variant: a save() that deactivates the other tiers of the same scope, as
\* DeepSeekPromptTemplate.save() does for prompts.
PricingTier_save_exclusive(table, pk, row) ==
    [p \in DOMAIN table |->
        IF p = pk THEN row
        ELSE IF row.is_active /\ table[p].scooter = row.scooter
             THEN [table[p] EXCEPT !.is_active = FALSE]
             ELSE table[p]]

\* PricingTier defines no save(): Model.save() of a stored instance writes
\* the columns of its own row and no other row.
PricingTier_save(table, pk, row) == [table EXCEPT ![pk] = row]

\* PricingTier.objects.create(scooter=..., base_price=..., is_active=...)
CreateTier(sc, bp, a) ==
    /\ Len(tiers) < MaxTiers
    /\ LET pk == Len(tiers) + 1
           row == [scooter |-> sc, base_price |-> bp, is_active |-> a]
       IN  tiers' = PricingTier_save(Append(tiers, row), pk, row)
    /\ UNCHANGED <<pricingVars, rentalVars, promptVars, lifeVars, chatVars>>

\* An operator edits the price of a stored tier and saves it.
EditTier(pk, bp) ==
    /\ pk \in DOMAIN tiers
    /\ tiers[pk].base_price # bp
    /\ tiers' = PricingTier_save(tiers, pk, [tiers[pk] EXCEPT !.base_price = bp])
    /\ UNCHANGED <<pricingVars, rentalVars, promptVars, lifeVars, chatVars>>

\* An operator marks a stored tier active and saves it.
ActivateTier(pk) ==
    /\ pk \in DOMAIN tiers
    /\ ~tiers[pk].is_active
    /\ tiers' = PricingTier_save(tiers, pk, [tiers[pk] EXCEPT !.is_active = TRUE])
    /\ UNCHANGED <<pricingVars, rentalVars, promptVars, lifeVars, chatVars>>

\* An operator marks a stored tier inactive and saves it.
DeactivateTier(pk) ==
    /\ pk \in DOMAIN tiers
    /\ tiers[pk].is_active
    /\ tiers' = PricingTier_save(tiers, pk, [tiers[pk] EXCEPT !.is_active = FALSE])
    /\ UNCHANGED <<pricingVars, rentalVars, promptVars, lifeVars, chatVars>>

----------------------------------------------------------------------------
(* DeepSeekPromptTemplate: save() and its callers *)

Writers == 1..NumWriters
PromptPks == 1..MaxPrompts

\* The name column: the name get_default_prompt() gives the row it creates
\* (in English here), and a name an operator gives.
DefaultName == "Standard consultant prompt"
CustomName == "custom"

\* An instance in a writer's memory: its pk (None until the first save) and
\* its attributes, which may differ from the stored row.
NoInst == [pk |-> None, is_active |-> FALSE, name |-> CustomName, bound |-> FALSE]
Instance(pk, a) == [pk |-> pk, is_active |-> a, name |-> CustomName, bound |-> TRUE]

\* The columns super().save() writes from the instance.
Row(self) == [is_active |-> self.is_active, name |-> self.name]

\* The pks of the stored rows with is_active = True.
ActivePks(table) == {p \in DOMAIN table : table[p].is_active}

\* Variant: the bulk update touches no row.
exclude_update_none(table, pk) == table

\* DeepSeekPromptTemplate.objects.exclude(pk=self.pk).update(is_active=False):
\* every stored row but the instance's own is set inactive; with pk None no
\* row is excluded.
exclude_update(table, pk) ==
    [p \in DOMAIN table |->
        IF Some(p) # pk THEN [table[p] EXCEPT !.is_active = FALSE] ELSE table[p]]

\* The first statement of save(): `if self.is_active: ...update(...)`.
save_deactivate(table, self) ==
    IF self.is_active THEN exclude_update(table, self.pk) ELSE table

\* Variant: the write of the own row deactivates the other rows again, in
\* the same step.
super_save_exclusive(table, self) ==
    LET t == save_deactivate(table, self)
    IN  IF self.pk = None
        THEN Append(t, Row(self))
        ELSE [t EXCEPT ![self.pk[1]] = Row(self)]

\* super().save(): INSERT a new row under the next pk when the instance has
\* none, else UPDATE the instance's row with the instance's attributes.
super_save(table, self) ==
    IF self.pk = None
    THEN Append(table, Row(self))
    ELSE [table EXCEPT ![self.pk[1]] = Row(self)]

\* The pk of the instance after super().save().
saved_pk(table, self) == IF self.pk = None THEN Some(Len(table) + 1) ELSE self.pk

\* save() run to completion.
save(table, self) == super_save(save_deactivate(table, self), self)

Idle(w) == pc[w] = "idle"

\* The instance made from the stored row p.
Loaded(table, p) ==
    [Instance(Some(p), table[p].is_active) EXCEPT !.name = table[p].name]

\* DeepSeekPromptTemplate(..., is_active=a): a new, unsaved instance.
NewPrompt(w, a) ==
    /\ Idle(w)
    /\ inst' = [inst EXCEPT ![w] = Instance(None, a)]
    /\ UNCHANGED <<prompts, pc, pricingVars, rentalVars, tableVars, lifeVars, chatVars>>

\* DeepSeekPromptTemplate.objects.get(pk=p): the stored row read into memory.
LoadPrompt(w, p) ==
    /\ Idle(w)
    /\ p \in DOMAIN prompts
    /\ inst' = [inst EXCEPT ![w] = Loaded(prompts, p)]
    /\ UNCHANGED <<prompts, pc, pricingVars, rentalVars, tableVars, lifeVars, chatVars>>

\* instance.is_active = a, in memory only.
SetActive(w, a) ==
    /\ Idle(w)
    /\ inst[w].bound
    /\ inst[w].is_active # a
    /\ inst' = [inst EXCEPT ![w].is_active = a]
    /\ UNCHANGED <<prompts, pc, pricingVars, rentalVars, tableVars, lifeVars, chatVars>>

\* The rows stored plus the inserts under way fit the table bound.
RoomFor(w) ==
    inst[w].pk # None
    \/ Len(prompts) + Cardinality({v \in Writers : pc[v] = "write" /\ inst[v].pk = None})
         < MaxPrompts

\* instance.save(), one writer at a time: both statements in one step.
Save(w) ==
    /\ Idle(w)
    /\ inst[w].bound
    /\ RoomFor(w)
    /\ prompts' = save(prompts, inst[w])
    /\ inst' = [inst EXCEPT ![w].pk = saved_pk(prompts, inst[w])]
    /\ UNCHANGED <<pc, pricingVars, rentalVars, tableVars, lifeVars, chatVars>>

\* super().save() that raises (a database error on the INSERT or UPDATE): the
\* statement stores nothing.
super_save_raises(table, self) == table

\* instance.save() whose super().save() raises: the bulk update of the first
\* statement has run in autocommit and save() opens no transaction, so it
\* stays; the exception leaves the instance without a new pk.
SaveFails(w) ==
    /\ Idle(w)
    /\ inst[w].bound
    /\ prompts' = super_save_raises(save_deactivate(prompts, inst[w]), inst[w])
    /\ UNCHANGED <<inst, pc, pricingVars, rentalVars, tableVars, lifeVars, chatVars>>

\* instance.save() among concurrent writers, first statement.
SaveDeactivate(w) ==
    /\ Idle(w)
    /\ inst[w].bound
    /\ RoomFor(w)
    /\ prompts' = save_deactivate(prompts, inst[w])
    /\ pc' = [pc EXCEPT ![w] = "write"]
    /\ UNCHANGED <<inst, pricingVars, rentalVars, tableVars, lifeVars, chatVars>>

\* instance.save() among concurrent writers, second statement.
SaveWrite(w) ==
    /\ pc[w] = "write"
    /\ prompts' = super_save(prompts, inst[w])
    /\ inst' = [inst EXCEPT ![w].pk = saved_pk(prompts, inst[w])]
    /\ pc' = [pc EXCEPT ![w] = "idle"]
    /\ UNCHANGED <<pricingVars, rentalVars, tableVars, lifeVars, chatVars>>

\* Variant: first() over all the rows, active or not.
get_active_prompt_unfiltered(table) ==
    IF table = <<>> THEN {None} ELSE {Some(p) : p \in DOMAIN table}

\* cls.objects.filter(is_active=True).first(): None when no row is active,
\* else the active row updated last. updated_at is not a column of the model's
\* rows, so first() may be any of the active rows.
get_active_prompt(table) ==
    IF ActivePks(table) = {} THEN {None} ELSE {Some(p) : p \in ActivePks(table)}

\* The instance cls.objects.create(name=..., is_active=True) constructs
\* before it saves it.
DefaultInstance ==
    [pk |-> None, is_active |-> TRUE, name |-> DefaultName, bound |-> TRUE]

\* The instance objects.create() hands back after save(), which
\* get_default_prompt() returns as default_prompt.
created(table, self) == [self EXCEPT !.pk = saved_pk(table, self)]

\* prompt = DeepSeekPromptTemplate.get_default_prompt(), one caller at a
\* time: the active prompt if there is one, else the default row is created
\* through save() and returned.
GetDefaultPrompt(w) ==
    /\ Idle(w)
    /\ \E active_prompt \in get_active_prompt(prompts) :
          IF active_prompt # None
          THEN /\ inst' = [inst EXCEPT ![w] = Loaded(prompts, active_prompt[1])]
               /\ UNCHANGED prompts
          ELSE /\ Len(prompts) < MaxPrompts
               /\ prompts' = save(prompts, DefaultInstance)
               /\ inst' = [inst EXCEPT ![w] = created(prompts, DefaultInstance)]
    /\ UNCHANGED <<pc, pricingVars, rentalVars, tableVars, lifeVars, chatVars>>

\* The pks of the stored rows that get_default_prompt() created.
DefaultRows(table) == {p \in DOMAIN table : table[p].name = DefaultName}

\* The default rows stored plus those callers of get_default_prompt() are about
\* to insert stay within the bound.
RoomForDefault ==
    Cardinality(DefaultRows(prompts))
      + Cardinality({v \in Writers : pc[v] \in {"create", "write"}})
        < MaxPrompts

\* get_default_prompt() among concurrent callers, the read: on a hit the call
\* returns; on a miss the caller goes on to objects.create().
DefaultRead(w) ==
    /\ Idle(w)
    /\ \E active_prompt \in get_active_prompt(prompts) :
          IF active_prompt # None
          THEN /\ inst' = [inst EXCEPT ![w] = Loaded(prompts, active_prompt[1])]
               /\ UNCHANGED pc
          ELSE /\ RoomForDefault
               /\ inst' = [inst EXCEPT ![w] = DefaultInstance]
               /\ pc' = [pc EXCEPT ![w] = "create"]
    /\ UNCHANGED <<prompts, pricingVars, rentalVars, tableVars, lifeVars, chatVars>>

\* get_default_prompt() among concurrent callers, the first statement of the
\* save() inside objects.create(); SaveWrite is the second.
DefaultDeactivate(w) ==
    /\ pc[w] = "create"
    /\ prompts' = save_deactivate(prompts, inst[w])
    /\ pc' = [pc EXCEPT ![w] = "write"]
    /\ UNCHANGED <<inst, pricingVars, rentalVars, tableVars, lifeVars, chatVars>>

----------------------------------------------------------------------------
(* Customer, Scooter and Rental rows: creation and deletion *)

CustomerPks == 1..NumCustomers

\* The Rental table by primary key: the row stored under a pk, or Gone once
\* the row was deleted (a pk is not handed out again).
Gone == [customer |-> 0, scooter |-> 0, status |-> "deleted", stored |-> FALSE]
StoredRental(c, sc, st) ==
    [customer |-> c, scooter |-> sc, status |-> st, stored |-> TRUE]

\* Variant: on_delete=models.DO_NOTHING, the rentals stay as they are.
cascade_do_nothing(table, column, pk) == table

\* on_delete=models.CASCADE of the ForeignKey named column: deleting the row
\* referred to deletes every rental that refers to it.
cascade(table, column, pk) ==
    [p \in DOMAIN table |->
        IF table[p].stored /\ table[p][column] = pk THEN Gone ELSE table[p]]

\* Customer.objects.create(...)
CreateCustomer(c) ==
    /\ c \notin customers
    /\ customers' = customers \cup {c}
    /\ UNCHANGED <<fleet, rentals, pricingVars, rentalVars, tableVars, promptVars, chatVars>>

\* Scooter.objects.create(...)
CreateScooter(sc) ==
    /\ sc \notin fleet
    /\ fleet' = fleet \cup {sc}
    /\ UNCHANGED <<customers, rentals, pricingVars, rentalVars, tableVars, promptVars, chatVars>>

\* Rental.objects.create(customer=c, scooter=sc, ...): both rows referred to
\* are stored; the status takes the column default.
CreateRental(c, sc) ==
    /\ c \in customers
    /\ sc \in fleet
    /\ Len(rentals) < MaxRentals
    /\ rentals' = Append(rentals, StoredRental(c, sc, created_status(None)))
    /\ UNCHANGED <<customers, fleet, pricingVars, rentalVars, tableVars, promptVars, chatVars>>

\* rental.status = s; rental.save() on a stored rental.
SetRentalStatus(pk, s) ==
    /\ pk \in DOMAIN rentals
    /\ rentals[pk].stored
    /\ rentals[pk].status # s
    /\ rentals' = [rentals EXCEPT ![pk] = status_written(rentals[pk], s)]
    /\ UNCHANGED <<customers, fleet, pricingVars, rentalVars, tableVars, promptVars, chatVars>>

\* customer.delete()
DeleteCustomer(c) ==
    /\ c \in customers
    /\ customers' = customers \ {c}
    /\ rentals' = cascade(rentals, "customer", c)
    /\ UNCHANGED <<fleet, pricingVars, rentalVars, tableVars, promptVars, chatVars>>

\* scooter.delete()
DeleteScooter(sc) ==
    /\ sc \in fleet
    /\ fleet' = fleet \ {sc}
    /\ rentals' = cascade(rentals, "scooter", sc)
    /\ UNCHANGED <<customers, pricingVars, rentalVars, tableVars, promptVars, chatVars>>

----------------------------------------------------------------------------
(* CustomerCommunications: chat_history, add_message and get_recent_messages *)

\* A str is the sequence of its characters; the line break is one of them.
NL == "\n"
Chars == {"a", NL}
RECURSIVE StringsOfLen(_)
StringsOfLen(n) ==
    IF n = 0 THEN {<<>>}
    ELSE {Append(t, c) : t \in StringsOfLen(n - 1), c \in Chars}
Messages == UNION {StringsOfLen(n) : n \in 0..MaxMsgLen}
Senders == {"customer", "manager"}
Limits == 0..MaxLimit

\* timezone.now().strftime('%Y-%m-%d %H:%M:%S'): the clock as text.
strftime(t) == ToString(t)

\* f"[{timestamp}] {sender}: {message}": the stamp of the clock and the
\* sender's name stand for their characters, none of them a line break.
new_message(timestamp, sender, message) ==
    <<"[", timestamp, "] ", sender, ": ">> \o message

\* str.split(sep): the pieces between the separators, empty pieces kept.
RECURSIVE split(_, _)
split(str, sep) ==
    IF \A i \in DOMAIN str : str[i] # sep THEN <<str>>
    ELSE LET i == CHOOSE j \in DOMAIN str :
                      str[j] = sep /\ \A k \in 1..(j - 1) : str[k] # sep
         IN  <<SubSeq(str, 1, i - 1)>> \o split(SubSeq(str, i + 1, Len(str)), sep)

\* list[start:] with Python's rule for a negative start.
slice_from(list, start) ==
    LET from == IF start < 0
                THEN (IF Len(list) + start < 0 THEN 0 ELSE Len(list) + start)
                ELSE (IF start > Len(list) THEN Len(list) ELSE start)
    IN  SubSeq(list, from + 1, Len(list))

get_recent_messages(history, limit) ==
    IF history = <<>> THEN <<>>
    ELSE LET messages == split(history, NL)
         IN  IF messages # <<>> THEN slice_from(messages, 0 - limit) ELSE <<>>

\* The new value of self.chat_history in add_message.
add_message(history, line) ==
    IF history # <<>> THEN history \o <<NL>> \o line ELSE line

\* communication.add_message(message, sender): the line is appended to the
\* field and the record saved.
AddMessage(message, sender) ==
    /\ Len(added) < MaxMessages
    /\ LET line == new_message(strftime(now), sender, message)
       IN  /\ chat_history' = add_message(chat_history, line)
           /\ chat_saved' = chat_history'
           /\ added' = Append(added, line)
    /\ recent' = NoCall
    /\ UNCHANGED <<pricingVars, rentalVars, tableVars, promptVars, lifeVars>>

\* communication.get_recent_messages(limit)
GetRecentMessages(limit) ==
    /\ recent' = [op |-> "get_recent_messages", limit |-> limit,
                  value |-> get_recent_messages(chat_history, limit)]
    /\ UNCHANGED <<chat_history, chat_saved, added,
                   pricingVars, rentalVars, tableVars, promptVars, lifeVars>>

----------------------------------------------------------------------------
(* Specifications *)

InitPricing == tier \in PricingTierRows /\ resolved = NoCall
InitRental == rental \in RentalRows /\ now = 0 /\ ret = NoCall
InitTable == tiers = <<>>
InitPrompts ==
    /\ prompts = <<>>
    /\ inst = [w \in Writers |-> NoInst]
    /\ pc = [w \in Writers |-> "idle"]

InitLife == customers = {} /\ fleet = {} /\ rentals = <<>>
InitChat ==
    /\ chat_history = <<>>
    /\ chat_saved = <<>>
    /\ added = <<>>
    /\ recent = NoCall

\* One fixed row for the parts a specification leaves alone.
IdlePricing ==
    /\ tier = [base_price |-> Some(0), days_1_3 |-> None, days_4_7 |-> None,
               days_7_14 |-> None, days_15_25 |-> None, one_year_rent |-> None,
               six_month_high_season |-> None, six_month_low_season |-> None,
               month |-> [m \in MONTH_CHOICES |-> None]]
    /\ resolved = NoCall
IdleRental ==
    /\ rental = [start_date |-> 0, end_date |-> 0, actual_end_date |-> None,
                 status |-> "active"]
    /\ now = 0
    /\ ret = NoCall

\* The duration resolver applied to every tier row.
PricingInit ==
    InitPricing /\ IdleRental /\ InitTable /\ InitPrompts /\ InitLife /\ InitChat
PricingNext == \E d \in Durations : ResolvePrice(d)
PricingSpec == PricingInit /\ [][PricingNext]_vars

\* duration_days and is_overdue applied to every rental row as time passes.
RentalInit ==
    IdlePricing /\ InitRental /\ InitTable /\ InitPrompts /\ InitLife /\ InitChat
RentalNext ==
    \/ CallDurationDays
    \/ CallIsOverdue
    \/ Tick
RentalSpec == RentalInit /\ [][RentalNext]_vars

\* duration_days applied to every rental row.
DurationNext == CallDurationDays
DurationSpec == RentalInit /\ [][DurationNext]_vars

\* The status of a rental written and read as time passes: the rentals not
\* yet returned that start at the first tick.
OptStatuses == {None} \cup {Some(st) : st \in RENTAL_STATUS_CHOICES}
StatusRentals ==
    {r \in RentalRows : r.start_date = 0 /\ r.actual_end_date = None}
StatusInit ==
    /\ IdlePricing /\ InitTable /\ InitPrompts /\ InitLife /\ InitChat
    /\ rental \in StatusRentals /\ now = 0 /\ ret = NoCall
StatusNext ==
    \/ CallIsOverdue
    \/ Tick
    \/ \E s \in RENTAL_STATUS_CHOICES : SetStatus(s)
    \/ \E st \in OptStatuses : NewRental(st)
StatusSpec == StatusInit /\ [][StatusNext]_vars

\* A caller computes the duration of a rental and resolves the tier's rate for
\* it, any number of times: the tiers with the two shortest bands, the
\* rentals in status 'active'.
QuoteTiers ==
    {t \in PricingTierRows :
        /\ t.days_7_14 = None /\ t.days_15_25 = None
        /\ t.one_year_rent = None /\ t.six_month_high_season = None}
QuoteRentals == {r \in RentalRows : r.status = "active"}
QuoteInit ==
    /\ tier \in QuoteTiers /\ resolved = NoCall
    /\ rental \in QuoteRentals /\ now = 0 /\ ret = NoCall
    /\ InitTable /\ InitPrompts /\ InitLife /\ InitChat
\* tier.get_price_for_duration(rental.duration_days)
ResolveForRental == ret.op = "duration_days" /\ ResolvePrice(ret.value)
QuoteNext ==
    \/ CallDurationDays
    \/ ResolveForRental
QuoteSpec == QuoteInit /\ [][QuoteNext]_vars

\* Customers, scooters and rentals created, changed and deleted.
LifecycleInit ==
    IdlePricing /\ IdleRental /\ InitTable /\ InitPrompts /\ InitLife /\ InitChat
LifecycleNext ==
    \/ \E c \in CustomerPks : CreateCustomer(c)
    \/ \E sc \in Scooters : CreateScooter(sc)
    \/ \E c \in CustomerPks, sc \in Scooters : CreateRental(c, sc)
    \/ \E pk \in 1..MaxRentals, s \in RENTAL_STATUS_CHOICES : SetRentalStatus(pk, s)
    \/ \E c \in CustomerPks : DeleteCustomer(c)
    \/ \E sc \in Scooters : DeleteScooter(sc)
LifecycleSpec == LifecycleInit /\ [][LifecycleNext]_vars

\* One CustomerCommunications record, its chat written and read.
ChatInit ==
    IdlePricing /\ IdleRental /\ InitTable /\ InitPrompts /\ InitLife /\ InitChat
ChatNext ==
    \/ \E m \in Messages, sender \in Senders : AddMessage(m, sender)
    \/ \E limit \in Limits : GetRecentMessages(limit)
ChatSpec == ChatInit /\ [][ChatNext]_vars

\* The PricingTier table under its operators.
TableInit ==
    IdlePricing /\ IdleRental /\ InitTable /\ InitPrompts /\ InitLife /\ InitChat
TableNext ==
    \/ \E sc \in OptScooters, bp \in Prices, a \in BOOLEAN : CreateTier(sc, bp, a)
    \/ \E pk \in 1..MaxTiers, bp \in Prices : EditTier(pk, bp)
    \/ \E pk \in 1..MaxTiers : ActivateTier(pk)
    \/ \E pk \in 1..MaxTiers : DeactivateTier(pk)
TableSpec == TableInit /\ [][TableNext]_vars

\* Prompt templates saved one save() at a time.
Init ==
    IdlePricing /\ IdleRental /\ InitTable /\ InitPrompts /\ InitLife /\ InitChat
Next ==
    \/ \E w \in Writers, a \in BOOLEAN : NewPrompt(w, a)
    \/ \E w \in Writers, p \in PromptPks : LoadPrompt(w, p)
    \/ \E w \in Writers, a \in BOOLEAN : SetActive(w, a)
    \/ \E w \in Writers : Save(w)
Spec == Init /\ [][Next]_vars

\* Prompt templates saved one save() at a time, some of the saves failing at
\* the write of the own row.
FailingNext ==
    \/ \E w \in Writers, a \in BOOLEAN : NewPrompt(w, a)
    \/ \E w \in Writers, p \in PromptPks : LoadPrompt(w, p)
    \/ \E w \in Writers, a \in BOOLEAN : SetActive(w, a)
    \/ \E w \in Writers : Save(w)
    \/ \E w \in Writers : SaveFails(w)
FailingSpec == Init /\ [][FailingNext]_vars

\* Prompt templates saved by concurrent writers: the two statements of save()
\* are separate steps, and other writers' steps may come between them.
ConcurrentNext ==
    \/ \E w \in Writers, a \in BOOLEAN : NewPrompt(w, a)
    \/ \E w \in Writers, p \in PromptPks : LoadPrompt(w, p)
    \/ \E w \in Writers, a \in BOOLEAN : SetActive(w, a)
    \/ \E w \in Writers : SaveDeactivate(w)
    \/ \E w \in Writers : SaveWrite(w)
ConcurrentSpec == Init /\ [][ConcurrentNext]_vars

\* get_default_prompt() called by concurrent callers on a table of a few stored
\* prompts of which at most one is active.
StoredPrompts ==
    {t \in UNION {[1..n -> [is_active : BOOLEAN, name : {CustomName}]] :
                    n \in 0..MaxStored} :
        Cardinality(ActivePks(t)) <= 1}
DefaultInit ==
    /\ IdlePricing /\ IdleRental /\ InitTable /\ InitLife /\ InitChat
    /\ prompts \in StoredPrompts
    /\ inst = [w \in Writers |-> NoInst]
    /\ pc = [w \in Writers |-> "idle"]
\* get_default_prompt() called one call at a time, between the loads, edits
\* and saves of the stored prompts.
GetOrCreateNext ==
    \/ \E w \in Writers, p \in PromptPks : LoadPrompt(w, p)
    \/ \E w \in Writers, a \in BOOLEAN : SetActive(w, a)
    \/ \E w \in Writers : Save(w)
    \/ \E w \in Writers : GetDefaultPrompt(w)
GetOrCreateSpec == DefaultInit /\ [][GetOrCreateNext]_vars

DefaultNext ==
    \/ \E w \in Writers : DefaultRead(w)
    \/ \E w \in Writers : DefaultDeactivate(w)
    \/ \E w \in Writers : SaveWrite(w)
DefaultSpec == DefaultInit /\ [][DefaultNext]_vars

----------------------------------------------------------------------------
(* Properties of the duration resolver (PricingSpec) *)

Resolved == resolved.op = "get_price_for_duration"

\* The band the documentation assigns to a duration, and its override column.
BandOf(d) ==
    IF d <= 3 THEN "days_1_3"
    ELSE IF d \in 4..7 THEN "days_4_7"
    ELSE IF d \in 8..14 THEN "days_7_14"
    ELSE IF d \in 15..25 THEN "days_15_25"
    ELSE "none"

BandOverride(self, d) ==
    CASE BandOf(d) = "days_1_3" -> self.days_1_3
      [] BandOf(d) = "days_4_7" -> self.days_4_7
      [] BandOf(d) = "days_7_14" -> self.days_7_14
      [] BandOf(d) = "days_15_25" -> self.days_15_25
      [] OTHER -> None

\* The override when it is set, whatever its value, else the base price.
OverrideIfSet(self, d) ==
    IF BandOverride(self, d) # None THEN BandOverride(self, d) ELSE self.base_price

\* C1: for 1 <= d <= 3 the resolved rate is the days_1_3 override when that
\* override is set (non-null, whatever its value), else base_price.
C1_Days1to3 ==
    (Resolved /\ resolved.days \in 1..3) =>
        resolved.price = (IF tier.days_1_3 # None THEN tier.days_1_3 ELSE tier.base_price)

\* C2: for 4 <= d <= 7, 8 <= d <= 14 and 15 <= d <= 25 the resolved rate is the
\* override of the days_4_7, days_7_14 and days_15_25 band when it is set
\* (non-null), else base_price.
C2_BandBoundaries ==
    (Resolved /\ resolved.days \in 4..25) =>
        resolved.price = OverrideIfSet(tier, resolved.days)

\* C3: for d > 25 the resolved rate is base_price, whatever the overrides and
\* the other price columns hold.
C3_Over25IsBase ==
    (Resolved /\ resolved.days > 25) => resolved.price = tier.base_price

C3_Witness ==
    /\ Resolved
    /\ resolved.days > 25
    /\ tier.days_15_25 # None /\ tier.days_15_25 # tier.base_price
    /\ DecimalTruthy(tier.days_15_25)
    /\ tier.one_year_rent # None
    /\ tier.month["summer"] # None
    /\ resolved.price = tier.base_price

\* C4: when the override of the band selected for the duration is null, the
\* resolved rate is exactly base_price and is not null.
C4_NullOverrideIsBase ==
    (Resolved /\ BandOf(resolved.days) # "none" /\ BandOverride(tier, resolved.days) = None) =>
        (resolved.price = tier.base_price /\ resolved.price # None)

C4_Witness ==
    /\ Resolved
    /\ resolved.days \in 8..14
    /\ tier.days_7_14 = None
    /\ tier.days_4_7 # None /\ tier.days_15_25 # None
    /\ tier.base_price = Some(MaxPrice)
    /\ resolved.price = Some(MaxPrice)

\* The values a long-term or seasonal column is given below.
SeasonalValues == {None, Some(0), Some(MaxPrice)}

\* The month columns: all null, only the summer price set, or all set to v.
MonthColumns(v) ==
    {[m \in MONTH_CHOICES |-> None],
     [m \in MONTH_CHOICES |-> IF m = "summer" THEN Some(MaxPrice) ELSE None],
     [m \in MONTH_CHOICES |-> v]}

\* The tiers that agree with self on base_price and the four duration bands
\* and differ from it in the long-term and month columns.
SeasonalVariants(self) ==
    {[self EXCEPT !.one_year_rent = y, !.six_month_high_season = h,
                  !.six_month_low_season = l, !.month = mc] :
        y \in SeasonalValues, h \in {None, Some(MaxPrice)},
        l \in {None, Some(MaxPrice)}, mc \in MonthColumns(Some(0))}

\* C14: two tiers that agree on base_price and the four duration bands give
\* the same rate for every duration, however their long-term and month
\* columns differ.
C14_SeasonalColumnsIgnored ==
    Resolved =>
        \A other \in SeasonalVariants(tier) :
            get_price_for_duration(other, resolved.days) = resolved.price

C14_Witness ==
    /\ Resolved
    /\ resolved.days > 25
    /\ tier.one_year_rent = None
    /\ tier.base_price = Some(0)
    /\ resolved.price = Some(0)
    /\ \E other \in SeasonalVariants(tier) :
          /\ other.one_year_rent = Some(MaxPrice)
          /\ other.month["summer"] = Some(MaxPrice)
          /\ get_price_for_duration(other, resolved.days) = Some(0)

----------------------------------------------------------------------------
(* Properties of Rental.duration_days and Rental.is_overdue (RentalSpec) *)

\* The calendar day a datetime falls on.
CalendarDay(t) == t \div TicksPerDay

\* The effective end of a rental: the actual end when set, else the planned end.
EffectiveEnd(self) ==
    IF self.actual_end_date # None THEN self.actual_end_date[1] ELSE self.end_date

\* C5: duration_days() is (E - S) + 1 in whole calendar days, E being the day
\* of actual_end_date when it is set and of the planned end_date otherwise.
C5_DurationInclusive ==
    ret.op = "duration_days" =>
        ret.value = (CalendarDay(EffectiveEnd(rental)) - CalendarDay(rental.start_date)) + 1

C5_Witness ==
    /\ ret.op = "duration_days"
    /\ rental.actual_end_date # None
    /\ CalendarDay(rental.actual_end_date[1]) > CalendarDay(rental.end_date)
    /\ rental.end_date > rental.start_date
    /\ ret.value = 3

\* C6: is_overdue() is true exactly when the stored status is 'active' and the
\* planned end_date is strictly earlier than the time of the call.
C6_OverdueIff ==
    ret.op = "is_overdue" =>
        (ret.value <=> (rental.status = "active" /\ rental.end_date < ret.at))

C6_Witness ==
    /\ ret.op = "is_overdue"
    /\ rental.status = "active"
    /\ ret.at > 0
    /\ rental.end_date = ret.at
    /\ ret.value = FALSE

\* C10: duration_days() is at least 1 for every Rental row the schema stores,
\* and exactly 1 when start and effective end fall on the same calendar day.
C10_NeverZeroDays ==
    ret.op = "duration_days" =>
        /\ ret.value >= 1
        /\ (CalendarDay(EffectiveEnd(rental)) = CalendarDay(rental.start_date)
              => ret.value = 1)

\* C11: a rental whose start is after its end is rejected: duration_days()
\* returns a value only for a rental whose start day is not after the day of its
\* effective end (for any other it reports InvalidRangeError instead).
C11_InvalidRangeRejected ==
    ret.op = "duration_days" =>
        CalendarDay(rental.start_date) <= CalendarDay(EffectiveEnd(rental))

\* C13: the stored status starts at 'active' and only moves from 'active' to
\* 'completed', 'cancelled' or 'overdue'; 'completed' and 'cancelled' are
\* never left.
C13_StatusMachine ==
    /\ ret.op = "create" => rental.status = "active"
    /\ ret.op = "set_status" =>
          (ret.from = "active" /\ ret.to \in {"completed", "cancelled", "overdue"})

\* C13 as amended: a rental created without a status is 'active', and a
\* status written over any stored status, terminal or not, is the status
\* stored afterwards.
C13_DefaultActiveAnyWrite ==
    /\ (ret.op = "create" /\ ~ret.status_given) => rental.status = "active"
    /\ ret.op = "set_status" => (rental.status = ret.to /\ ret.to # ret.from)

C13_Witness ==
    /\ ret.op = "set_status"
    /\ ret.from = "completed"
    /\ ret.to = "active"
    /\ rental.status = "active"
    /\ rental.end_date < now

\* C15: a call of is_overdue() leaves every field of the rental as it was,
\* the status included even when the call returns true; the stored status
\* becomes 'overdue' only in a step that writes the status.
C15_IsOverduePure ==
    [][/\ (ret'.op = "is_overdue" /\ ret' # ret) => rental' = rental
       /\ (rental'.status = "overdue" /\ rental.status # "overdue")
             => ret'.op \in {"set_status", "create"}]_vars

C15_Witness ==
    /\ ret.op = "is_overdue"
    /\ ret.value = TRUE
    /\ rental.end_date < ret.at
    /\ rental.status = "active"

\* A rental with the same calendar days of start and effective end as self,
\* at the times of day ts and te; the end is the planned one (actual_end_date
\* null) or the actual one beside any planned end pe.
SameDays(self, ts, te) ==
    LET s2 == CalendarDay(self.start_date) * TicksPerDay + ts
        e2 == CalendarDay(EffectiveEnd(self)) * TicksPerDay + te
    IN  {[self EXCEPT !.start_date = s2, !.end_date = e2, !.actual_end_date = None]}
        \cup {[self EXCEPT !.start_date = s2, !.end_date = pe,
                           !.actual_end_date = Some(e2)] : pe \in Datetimes}

\* C17: rentals that start on the same calendar day and whose effective ends
\* fall on the same calendar day have the same duration_days(), whatever the
\* times of day.
C17_TimeOfDayIgnored ==
    ret.op = "duration_days" =>
        \A ts \in 0..(TicksPerDay - 1), te \in 0..(TicksPerDay - 1) :
            \A other \in SameDays(rental, ts, te) : duration_days(other) = ret.value

\* A rental from the last tick of one day to the first tick of the next.
C17_Witness ==
    /\ ret.op = "duration_days"
    /\ rental.start_date % TicksPerDay = TicksPerDay - 1
    /\ EffectiveEnd(rental) = rental.start_date + 1
    /\ ret.value = 2

----------------------------------------------------------------------------
(* Properties of the two readers together (QuoteSpec) *)

----------------------------------------------------------------------------
(* Properties of the Rental table (LifecycleSpec) *)

----------------------------------------------------------------------------
(* Properties of the chat log (ChatSpec) *)

Min(a, b) == IF a < b THEN a ELSE b
LastOf(list, k) == SubSeq(list, Len(list) - k + 1, Len(list))

\* C19: after n calls of add_message, get_recent_messages(limit) returns the
\* last min(n, limit) lines added, one entry per line, in the order added; the
\* record stored is the history in memory, which has the lines added in order.
C19_ChatRoundTrip ==
    /\ chat_saved = chat_history
    /\ recent.op = "get_recent_messages"
          => recent.value = LastOf(added, Min(Len(added), recent.limit))

\* The part of C19 that holds: the history is saved as it is in memory, and
\* each add_message leaves the history before it as a prefix.
C19_HistoryGrowsSaved ==
    [][/\ chat_saved' = chat_history'
       /\ SubSeq(chat_history', 1, Len(chat_history)) = chat_history]_vars

C19_LimitZeroReturnsAll ==
    /\ recent.op = "get_recent_messages"
    /\ recent.limit = 0
    /\ Len(added) = 1
    /\ recent.value = added

----------------------------------------------------------------------------
(* Properties of DeepSeekPromptTemplate.save() *)

\* C7 (Spec): with save() calls run one at a time, at most one stored prompt is
\* active in every state, and a save() of an instance with is_active = True
\* leaves that row the only active one.
C7_OnlyOneActive ==
    /\ [](Cardinality(ActivePks(prompts)) <= 1)
    /\ [][\A w \in Writers :
            (Save(w) /\ inst[w].is_active) => ActivePks(prompts') = {inst'[w].pk[1]}]_vars

\* Two writers each hold a different stored row as active in memory; one of
\* them is stale, and one row is active in the table.
C7_Witness ==
    /\ Len(prompts) >= 2
    /\ Cardinality(ActivePks(prompts)) = 1
    /\ \E w, v \in Writers :
          /\ inst[w].bound /\ inst[v].bound
          /\ inst[w].pk # None /\ inst[v].pk # None
          /\ inst[w].pk # inst[v].pk
          /\ inst[w].is_active /\ inst[v].is_active
          /\ prompts[inst[w].pk[1]].is_active
          /\ ~prompts[inst[v].pk[1]].is_active

\* C8 (ConcurrentSpec): when another writer's row became active between the
\* two statements of a writer's save() of an active instance, the writer's
\* second statement leaves two stored rows active.
C8_InterleavedSavesRace ==
    [][\A w \in Writers :
          (/\ pc[w] = "write" /\ pc'[w] = "idle"
           /\ inst[w].is_active
           /\ \E p \in ActivePks(prompts) : Some(p) # inst[w].pk)
          => Cardinality(ActivePks(prompts')) >= 2]_vars

C8_Witness ==
    /\ Cardinality(ActivePks(prompts)) >= 2
    /\ \A w \in Writers : pc[w] = "idle"

----------------------------------------------------------------------------
(* Properties of DeepSeekPromptTemplate.get_default_prompt() *)

C20_OneDefaultRowUnderRace ==
    /\ Cardinality(DefaultRows(prompts)) <= 1
    /\ ((\A w \in Writers : Idle(w)) /\ DefaultRows(prompts) # {})
          => Cardinality(ActivePks(prompts)) = 1

\* Two default rows, both active, after two calls that both missed.
C20_TwoDefaultRows ==
    /\ \A w \in Writers : Idle(w)
    /\ Cardinality(DefaultRows(prompts)) = 2
    /\ Cardinality(ActivePks(prompts)) = 2

----------------------------------------------------------------------------
(* Properties of a save() that fails (FailingSpec) *)

\* The stored is_active value of every row.
ActiveFlags(table) == [p \in DOMAIN table |-> table[p].is_active]

\* C21: a save() whose write of the own row fails leaves the stored is_active
\* value of every row as it was before the call, and a save() of an instance
\* with is_active = false changes the is_active value of no other row.
C21_SaveAllOrNothing ==
    [][\A w \in Writers :
          /\ SaveFails(w) => ActiveFlags(prompts') = ActiveFlags(prompts)
          /\ (Save(w) /\ ~inst[w].is_active) =>
                \A p \in DOMAIN prompts :
                    Some(p) # inst[w].pk
                       => prompts'[p].is_active = prompts[p].is_active]_vars

\* The part of C21 that holds: a save(), failing or not, of an instance with
\* is_active = false changes the is_active value of no other row.
C21_InactiveSaveKeepsOthers ==
    [][\A w \in Writers :
          ((Save(w) \/ SaveFails(w)) /\ ~inst[w].is_active) =>
              \A p \in DOMAIN prompts :
                  Some(p) # inst[w].pk
                     => prompts'[p].is_active = prompts[p].is_active]_vars

\* A failed save of a new active prompt has left the table with no active
\* prompt: the row that was active is stored inactive.
C21_NoActiveAfterFailure ==
    /\ Len(prompts) = 1
    /\ ActivePks(prompts) = {}
    /\ \E w \in Writers :
          inst[w] = Instance(Some(1), TRUE) /\ Idle(w)
    /\ \E w \in Writers : inst[w] = Instance(None, TRUE)

----------------------------------------------------------------------------
(* Properties of the PricingTier table (TableSpec) *)

SameScope(a, b) == a.scooter = b.scooter

====
